---- MODULE Spec2Model ----
(***************************************************************************)
(* Vaultix: milestone escrow contract (apps/onchain/src/lib.rs) and the    *)
(* multi-party confirmation module (contracts/escrow/src/confirmation).    *)
(*                                                                         *)
(* Every contract entry point is one atomic action: the Soroban host runs  *)
(* an invocation to completion and commits its writes only when it         *)
(* returns Ok; an Err result or a trap (failed require_auth, failed token  *)
(* call) rolls the whole invocation back.                                  *)
(***************************************************************************)
EXTENDS Integers, Sequences, FiniteSets, TLC

\* ------------------------------------------------------------------ bounds
\* Longest milestone vector a caller supplies that can be stored.
MaxMilestoneLen == 2
\* Largest milestone amount a caller supplies.
MaxAmount == 2
\* Stand-in for i128::MAX: sums above it make checked_add return None.
I128_MAX == 3
\* Token balance every party holds before the first call.
InitBalance == 3
\* Tokens the contract already holds for escrows outside EscrowIds.
OtherCustody == 1

\* Longest party list a caller passes to confirm.
MaxParties == 3
\* Largest requirement a caller passes in ConfirmationThreshold::Custom.
MaxCustom == 5
\* Largest ledger timestamp stamped on a confirmation.
MaxTimestamp == 0
\* Input sizes of the combined specification (both contracts together).
AllMilestoneLen == 1
AllPartyLen == 2

\* ------------------------------------------------------- program constants
\* validate_milestones: "if milestones.len() > 20"
MAX_MILESTONES == 20

\* ------------------------------------------------------------- value sets
EscrowIds == {1}
Parties == {"alice", "bob"}
Contract == "contract"
Accounts == Parties \cup {Contract}
TokenAddresses == {"token"}
Deadlines == {1706400000}
Descriptions == {"Task"}

MilestoneStatus == {"Pending", "Released", "Disputed"}
EscrowStatus == {"Created", "Active", "Completed", "Cancelled"}

\* Amounts a caller may put in a milestone: negative, zero and positive.
InputAmounts == (-1)..MaxAmount

Milestone == [amount : InputAmounts, status : MilestoneStatus, description : Descriptions]

\* A vector one longer than the contract accepts.
TooLongMilestones ==
    [i \in 1..(MAX_MILESTONES + 1) |->
        [amount |-> 1, status |-> "Pending", description |-> "Task"]]

\* Milestone vectors supplied to create_escrow; every milestone of one call
\* carries the same caller-chosen status.
SeqsUpTo(S, n) == UNION {[1..k -> S] : k \in 0..n}

UniformStatus(ms) == \A i \in 1..Len(ms) : ms[i].status = ms[1].status

\* A vector whose running sum overflows at its second milestone, before the
\* loop reaches the zero amount in its third.
OverflowThenZero ==
    <<[amount |-> I128_MAX, status |-> "Pending", description |-> "Task"],
      [amount |-> 1, status |-> "Pending", description |-> "Task"],
      [amount |-> 0, status |-> "Pending", description |-> "Task"]>>

MilestoneInputsUpTo(n) ==
    {ms \in SeqsUpTo(Milestone, n) : UniformStatus(ms)}
        \cup {TooLongMilestones, OverflowThenZero}

MilestoneInputs == MilestoneInputsUpTo(MaxMilestoneLen)

\* Confirmation module inputs.
ConfParties == {"alice", "bob", "carol"}
\* confirm reads only parties.len() and whether the caller occurs in it, so
\* one ordering of every multiset of addresses is supplied (duplicates kept).
PartyRank == [p \in ConfParties |->
                 CASE p = "alice" -> 1 [] p = "bob" -> 2 [] p = "carol" -> 3]

PartyLists ==
    {ps \in SeqsUpTo(ConfParties, MaxParties) :
        \A i \in 1..(Len(ps) - 1) : PartyRank[ps[i]] <= PartyRank[ps[i + 1]]}
Timestamps == 0..MaxTimestamp

ConfirmationThreshold ==
    {[kind |-> "All", required |-> 0], [kind |-> "Majority", required |-> 0]}
        \cup {[kind |-> "Custom", required |-> k] : k \in 0..MaxCustom}

VARIABLES
    escrows,      \* persistent storage ("escrow", id) -> Escrow; DOMAIN = keys present
    balance,      \* token contract: balance of every account
    paid,         \* history: paid[id][i] = total pushed to recipient for milestone index i
    party_confirmations, \* "party_conf_{id}" -> Map<Address, PartyConfirmation>
    escrow_status,       \* "escrow_status_{id}" -> u32 status code
    conf_count,          \* "conf_count_{id}" -> u32
    last          \* outcome of the most recent invocation

ledgerVars == <<escrows, balance, paid>>
confVars == <<party_confirmations, escrow_status, conf_count>>
vars == <<escrows, balance, paid, party_confirmations, escrow_status, conf_count, last>>

\* ------------------------------------------------------------ pure helpers

\* i128::checked_add on non-negative operands: None above i128::MAX.
checked_add(x, y) ==
    IF x + y > I128_MAX THEN [some |-> FALSE, value |-> 0]
    ELSE [some |-> TRUE, value |-> x + y]

\* Variant of the loop without the "amount <= 0" rejection.
RECURSIVE validate_loop_NoZeroCheck(_, _, _)
validate_loop_NoZeroCheck(milestones, i, total) ==
    IF i > Len(milestones) THEN [ok |-> TRUE, total |-> total, err |-> "Ok"]
    ELSE IF ~checked_add(total, milestones[i].amount).some
         THEN [ok |-> FALSE, total |-> 0, err |-> "InvalidMilestoneAmount"]
    ELSE validate_loop_NoZeroCheck(milestones, i + 1,
                                   checked_add(total, milestones[i].amount).value)

\* The loop of validate_milestones from position i with running total.
RECURSIVE validate_loop(_, _, _)
validate_loop(milestones, i, total) ==
    IF i > Len(milestones) THEN [ok |-> TRUE, total |-> total, err |-> "Ok"]
    ELSE IF milestones[i].amount <= 0
         THEN [ok |-> FALSE, total |-> 0, err |-> "ZeroAmount"]
    ELSE IF ~checked_add(total, milestones[i].amount).some
         THEN [ok |-> FALSE, total |-> 0, err |-> "InvalidMilestoneAmount"]
    ELSE validate_loop(milestones, i + 1, checked_add(total, milestones[i].amount).value)

validate_milestones(milestones) ==
    IF Len(milestones) > MAX_MILESTONES
    THEN [ok |-> FALSE, total |-> 0, err |-> "VectorTooLarge"]
    ELSE validate_loop(milestones, 1, 0)

verify_all_released(milestones) ==
    \A i \in 1..Len(milestones) : milestones[i].status = "Released"

\* token::Client::transfer / transfer_from succeed when the token contract
\* accepts the call (tok: allowance present, accounts authorised) and the
\* source holds the amount; otherwise the call traps.
TransferOk(from, amount, tok) == tok /\ amount >= 0 /\ balance[from] >= amount

Moved(from, to, amount) ==
    [a \in Accounts |->
        IF from = to THEN balance[a]
        ELSE IF a = from THEN balance[a] - amount
        ELSE IF a = to THEN balance[a] + amount
        ELSE balance[a]]

\* env.storage().persistent().has / set on the ("escrow", id) key.
has(escrow_id) == escrow_id \in DOMAIN escrows

set(escrow_id, escrow) ==
    [id \in DOMAIN escrows \cup {escrow_id} |->
        IF id = escrow_id THEN escrow ELSE escrows[id]]

NoIndex == -1
NoParty == "nobody"

\* What the caller of the most recent invocation observes: the entry point,
\* its key arguments and the result; for confirm also the returned
\* ConfirmationEvent (confirmations_count, threshold_met). auth_checks is
\* the number of require_auth calls the invocation executed; args holds the
\* arguments of a direct call of a ThresholdLogic function and returned the
\* u32 it returned.
Outcome(op, id, idx, res) ==
    [op |-> op, id |-> id, idx |-> idx, res |-> res,
     party |-> NoParty, confirmations_count |-> 0, threshold_met |-> FALSE,
     auth_checks |-> 0, args |-> <<>>, returned |-> 0]

\* The outcome of an invocation that got as far as its require_auth line.
AfterAuth(outcome) == [outcome EXCEPT !.auth_checks = @ + 1]

\* An escrow invocation that returned Err before its require_auth line:
\* nothing is committed.
FailsBeforeAuth(op, id, idx, res) ==
    /\ last' = Outcome(op, id, idx, res)
    /\ UNCHANGED <<escrows, balance, paid, party_confirmations, escrow_status, conf_count>>

\* An escrow invocation that trapped in require_auth, or returned Err or
\* trapped after it: nothing is committed.
Fails(op, id, idx, res) ==
    /\ last' = AfterAuth(Outcome(op, id, idx, res))
    /\ UNCHANGED <<escrows, balance, paid, party_confirmations, escrow_status, conf_count>>

Init ==
    /\ escrows = [id \in {} |-> 0]
    /\ balance = [a \in Accounts |-> IF a = Contract THEN OtherCustody ELSE InitBalance]
    /\ paid = [id \in EscrowIds |-> [i \in 0..MaxMilestoneLen |-> 0]]
    /\ party_confirmations = [id \in {} |-> 0]
    /\ escrow_status = [id \in {} |-> 0]
    /\ conf_count = [id \in {} |-> 0]
    /\ last = Outcome("none", 0, NoIndex, "Ok")

\* ---------------------------------------------------------- create_escrow
\* Variant that stores the record without looking for an existing one.
create_escrow_Overwrite(escrow_id, depositor, recipient, token_address, milestones, deadline, auth) ==
    IF ~auth THEN Fails("create", escrow_id, NoIndex, "AuthFailed")
    ELSE IF depositor = recipient THEN Fails("create", escrow_id, NoIndex, "SelfDealing")
    ELSE IF ~validate_milestones(milestones).ok
         THEN Fails("create", escrow_id, NoIndex, validate_milestones(milestones).err)
    ELSE
        /\ escrows' = set(escrow_id,
              [depositor |-> depositor,
               recipient |-> recipient,
               token_address |-> token_address,
               total_amount |-> validate_milestones(milestones).total,
               total_released |-> 0,
               milestones |-> [i \in 1..Len(milestones) |->
                                  [milestones[i] EXCEPT !.status = "Pending"]],
               status |-> "Created",
               deadline |-> deadline])
        /\ last' = AfterAuth(Outcome("create", escrow_id, NoIndex, "Ok"))
        /\ UNCHANGED <<balance, paid, confVars>>

\* Variant that stores the milestones with the status the caller supplied.
create_escrow_KeepStatus(escrow_id, depositor, recipient, token_address, milestones, deadline, auth) ==
    IF ~auth THEN Fails("create", escrow_id, NoIndex, "AuthFailed")
    ELSE IF depositor = recipient THEN Fails("create", escrow_id, NoIndex, "SelfDealing")
    ELSE IF has(escrow_id)
         THEN Fails("create", escrow_id, NoIndex, "EscrowAlreadyExists")
    ELSE IF ~validate_milestones(milestones).ok
         THEN Fails("create", escrow_id, NoIndex, validate_milestones(milestones).err)
    ELSE
        /\ escrows' = set(escrow_id,
              [depositor |-> depositor,
               recipient |-> recipient,
               token_address |-> token_address,
               total_amount |-> validate_milestones(milestones).total,
               total_released |-> 0,
               milestones |-> milestones,
               status |-> "Created",
               deadline |-> deadline])
        /\ last' = AfterAuth(Outcome("create", escrow_id, NoIndex, "Ok"))
        /\ UNCHANGED <<balance, paid, confVars>>

create_escrow(escrow_id, depositor, recipient, token_address, milestones, deadline, auth) ==
    IF ~auth THEN Fails("create", escrow_id, NoIndex, "AuthFailed")
    ELSE IF depositor = recipient THEN Fails("create", escrow_id, NoIndex, "SelfDealing")
    ELSE IF has(escrow_id)
         THEN Fails("create", escrow_id, NoIndex, "EscrowAlreadyExists")
    ELSE IF ~validate_milestones(milestones).ok
         THEN Fails("create", escrow_id, NoIndex, validate_milestones(milestones).err)
    ELSE
        /\ escrows' = set(escrow_id,
              [depositor |-> depositor,
               recipient |-> recipient,
               token_address |-> token_address,
               total_amount |-> validate_milestones(milestones).total,
               total_released |-> 0,
               milestones |-> [i \in 1..Len(milestones) |->
                                  [milestones[i] EXCEPT !.status = "Pending"]],
               status |-> "Created",
               deadline |-> deadline])
        /\ last' = AfterAuth(Outcome("create", escrow_id, NoIndex, "Ok"))
        /\ UNCHANGED <<balance, paid, confVars>>

\* ---------------------------------------------------------- deposit_funds
\* Variant that never asks the depositor to authorise the call.
deposit_funds_NoAuth(escrow_id, auth, tok) ==
    LET escrow == escrows[escrow_id] IN
    IF ~has(escrow_id) THEN FailsBeforeAuth("fund", escrow_id, NoIndex, "EscrowNotFound")
    ELSE IF escrow.status # "Created"
         THEN Fails("fund", escrow_id, NoIndex, "EscrowAlreadyFunded")
    ELSE IF ~TransferOk(escrow.depositor, escrow.total_amount, tok)
         THEN Fails("fund", escrow_id, NoIndex, "TokenTransferFailed")
    ELSE
        /\ balance' = Moved(escrow.depositor, Contract, escrow.total_amount)
        /\ escrows' = [escrows EXCEPT ![escrow_id].status = "Active"]
        /\ last' = AfterAuth(Outcome("fund", escrow_id, NoIndex, "Ok"))
        /\ UNCHANGED <<paid, confVars>>

\* Variant that uses the fallible token call and drops its result: the
\* status is written although nothing was pulled.
deposit_funds_IgnoreTransferResult(escrow_id, auth, tok) ==
    LET escrow == escrows[escrow_id] IN
    IF ~has(escrow_id) THEN FailsBeforeAuth("fund", escrow_id, NoIndex, "EscrowNotFound")
    ELSE IF ~auth THEN Fails("fund", escrow_id, NoIndex, "AuthFailed")
    ELSE IF escrow.status # "Created"
         THEN Fails("fund", escrow_id, NoIndex, "EscrowAlreadyFunded")
    ELSE
        /\ balance' = IF TransferOk(escrow.depositor, escrow.total_amount, tok)
                      THEN Moved(escrow.depositor, Contract, escrow.total_amount)
                      ELSE balance
        /\ escrows' = [escrows EXCEPT ![escrow_id].status = "Active"]
        /\ last' = AfterAuth(Outcome("fund", escrow_id, NoIndex, "Ok"))
        /\ UNCHANGED <<paid, confVars>>

\* Variant without the "status != Created" rejection.
deposit_funds_NoStatusCheck(escrow_id, auth, tok) ==
    LET escrow == escrows[escrow_id] IN
    IF ~has(escrow_id) THEN FailsBeforeAuth("fund", escrow_id, NoIndex, "EscrowNotFound")
    ELSE IF ~auth THEN Fails("fund", escrow_id, NoIndex, "AuthFailed")
    ELSE IF ~TransferOk(escrow.depositor, escrow.total_amount, tok)
         THEN Fails("fund", escrow_id, NoIndex, "TokenTransferFailed")
    ELSE
        /\ balance' = Moved(escrow.depositor, Contract, escrow.total_amount)
        /\ escrows' = [escrows EXCEPT ![escrow_id].status = "Active"]
        /\ last' = AfterAuth(Outcome("fund", escrow_id, NoIndex, "Ok"))
        /\ UNCHANGED <<paid, confVars>>

\* Variant that looks at the status before it asks for authorisation.
deposit_funds_StatusBeforeAuth(escrow_id, auth, tok) ==
    LET escrow == escrows[escrow_id] IN
    IF ~has(escrow_id) THEN FailsBeforeAuth("fund", escrow_id, NoIndex, "EscrowNotFound")
    ELSE IF escrow.status # "Created"
         THEN FailsBeforeAuth("fund", escrow_id, NoIndex, "EscrowAlreadyFunded")
    ELSE IF ~auth THEN Fails("fund", escrow_id, NoIndex, "AuthFailed")
    ELSE IF ~TransferOk(escrow.depositor, escrow.total_amount, tok)
         THEN Fails("fund", escrow_id, NoIndex, "TokenTransferFailed")
    ELSE
        /\ balance' = Moved(escrow.depositor, Contract, escrow.total_amount)
        /\ escrows' = [escrows EXCEPT ![escrow_id].status = "Active"]
        /\ last' = AfterAuth(Outcome("fund", escrow_id, NoIndex, "Ok"))
        /\ UNCHANGED <<paid, confVars>>

deposit_funds(escrow_id, auth, tok) ==
    LET escrow == escrows[escrow_id] IN
    IF ~has(escrow_id) THEN FailsBeforeAuth("fund", escrow_id, NoIndex, "EscrowNotFound")
    ELSE IF ~auth THEN Fails("fund", escrow_id, NoIndex, "AuthFailed")
    ELSE IF escrow.status # "Created"
         THEN Fails("fund", escrow_id, NoIndex, "EscrowAlreadyFunded")
    ELSE IF ~TransferOk(escrow.depositor, escrow.total_amount, tok)
         THEN Fails("fund", escrow_id, NoIndex, "TokenTransferFailed")
    ELSE
        /\ balance' = Moved(escrow.depositor, Contract, escrow.total_amount)
        /\ escrows' = [escrows EXCEPT ![escrow_id].status = "Active"]
        /\ last' = AfterAuth(Outcome("fund", escrow_id, NoIndex, "Ok"))
        /\ UNCHANGED <<paid, confVars>>

\* ------------------------------------------------------ release_milestone
\* Variant without the "already released" rejection.
release_milestone_NoReleasedCheck(escrow_id, milestone_index, auth, tok) ==
    LET escrow == escrows[escrow_id]
        milestone == escrow.milestones[milestone_index + 1]
    IN
    IF ~has(escrow_id)
    THEN FailsBeforeAuth("release", escrow_id, milestone_index, "EscrowNotFound")
    ELSE IF ~auth THEN Fails("release", escrow_id, milestone_index, "AuthFailed")
    ELSE IF escrow.status # "Active"
         THEN Fails("release", escrow_id, milestone_index, "EscrowNotActive")
    ELSE IF milestone_index >= Len(escrow.milestones)
         THEN Fails("release", escrow_id, milestone_index, "MilestoneNotFound")
    ELSE IF ~TransferOk(Contract, milestone.amount, tok)
         THEN Fails("release", escrow_id, milestone_index, "TokenTransferFailed")
    ELSE IF ~checked_add(escrow.total_released, milestone.amount).some
         THEN Fails("release", escrow_id, milestone_index, "InvalidMilestoneAmount")
    ELSE
        /\ balance' = Moved(Contract, escrow.recipient, milestone.amount)
        /\ escrows' = [escrows EXCEPT
              ![escrow_id].milestones[milestone_index + 1].status = "Released",
              ![escrow_id].total_released =
                    checked_add(escrow.total_released, milestone.amount).value]
        /\ paid' = [paid EXCEPT ![escrow_id][milestone_index] = @ + milestone.amount]
        /\ UNCHANGED confVars
        /\ last' = AfterAuth(Outcome("release", escrow_id, milestone_index, "Ok"))

\* Variant that pays one milestone and marks every milestone Released.
release_milestone_MarksAll(escrow_id, milestone_index, auth, tok) ==
    LET escrow == escrows[escrow_id]
        milestone == escrow.milestones[milestone_index + 1]
    IN
    IF ~has(escrow_id)
    THEN FailsBeforeAuth("release", escrow_id, milestone_index, "EscrowNotFound")
    ELSE IF ~auth THEN Fails("release", escrow_id, milestone_index, "AuthFailed")
    ELSE IF escrow.status # "Active"
         THEN Fails("release", escrow_id, milestone_index, "EscrowNotActive")
    ELSE IF milestone_index >= Len(escrow.milestones)
         THEN Fails("release", escrow_id, milestone_index, "MilestoneNotFound")
    ELSE IF milestone.status = "Released"
         THEN Fails("release", escrow_id, milestone_index, "MilestoneAlreadyReleased")
    ELSE IF ~TransferOk(Contract, milestone.amount, tok)
         THEN Fails("release", escrow_id, milestone_index, "TokenTransferFailed")
    ELSE IF ~checked_add(escrow.total_released, milestone.amount).some
         THEN Fails("release", escrow_id, milestone_index, "InvalidMilestoneAmount")
    ELSE
        /\ balance' = Moved(Contract, escrow.recipient, milestone.amount)
        /\ escrows' = [escrows EXCEPT
              ![escrow_id].milestones =
                    [i \in 1..Len(escrow.milestones) |->
                        [escrow.milestones[i] EXCEPT !.status = "Released"]],
              ![escrow_id].total_released =
                    checked_add(escrow.total_released, milestone.amount).value]
        /\ paid' = [paid EXCEPT ![escrow_id][milestone_index] = @ + milestone.amount]
        /\ UNCHANGED confVars
        /\ last' = AfterAuth(Outcome("release", escrow_id, milestone_index, "Ok"))

\* Variant without the "status != Active" rejection.
release_milestone_NoStatusCheck(escrow_id, milestone_index, auth, tok) ==
    LET escrow == escrows[escrow_id]
        milestone == escrow.milestones[milestone_index + 1]
    IN
    IF ~has(escrow_id)
    THEN FailsBeforeAuth("release", escrow_id, milestone_index, "EscrowNotFound")
    ELSE IF ~auth THEN Fails("release", escrow_id, milestone_index, "AuthFailed")
    ELSE IF milestone_index >= Len(escrow.milestones)
         THEN Fails("release", escrow_id, milestone_index, "MilestoneNotFound")
    ELSE IF milestone.status = "Released"
         THEN Fails("release", escrow_id, milestone_index, "MilestoneAlreadyReleased")
    ELSE IF ~TransferOk(Contract, milestone.amount, tok)
         THEN Fails("release", escrow_id, milestone_index, "TokenTransferFailed")
    ELSE IF ~checked_add(escrow.total_released, milestone.amount).some
         THEN Fails("release", escrow_id, milestone_index, "InvalidMilestoneAmount")
    ELSE
        /\ balance' = Moved(Contract, escrow.recipient, milestone.amount)
        /\ escrows' = [escrows EXCEPT
              ![escrow_id].milestones[milestone_index + 1].status = "Released",
              ![escrow_id].total_released =
                    checked_add(escrow.total_released, milestone.amount).value]
        /\ paid' = [paid EXCEPT ![escrow_id][milestone_index] = @ + milestone.amount]
        /\ UNCHANGED confVars
        /\ last' = AfterAuth(Outcome("release", escrow_id, milestone_index, "Ok"))

release_milestone(escrow_id, milestone_index, auth, tok) ==
    LET escrow == escrows[escrow_id]
        milestone == escrow.milestones[milestone_index + 1]
    IN
    IF ~has(escrow_id)
    THEN FailsBeforeAuth("release", escrow_id, milestone_index, "EscrowNotFound")
    ELSE IF ~auth THEN Fails("release", escrow_id, milestone_index, "AuthFailed")
    ELSE IF escrow.status # "Active"
         THEN Fails("release", escrow_id, milestone_index, "EscrowNotActive")
    ELSE IF milestone_index >= Len(escrow.milestones)
         THEN Fails("release", escrow_id, milestone_index, "MilestoneNotFound")
    ELSE IF milestone.status = "Released"
         THEN Fails("release", escrow_id, milestone_index, "MilestoneAlreadyReleased")
    ELSE IF ~TransferOk(Contract, milestone.amount, tok)
         THEN Fails("release", escrow_id, milestone_index, "TokenTransferFailed")
    ELSE IF ~checked_add(escrow.total_released, milestone.amount).some
         THEN Fails("release", escrow_id, milestone_index, "InvalidMilestoneAmount")
    ELSE
        /\ balance' = Moved(Contract, escrow.recipient, milestone.amount)
        /\ escrows' = [escrows EXCEPT
              ![escrow_id].milestones[milestone_index + 1].status = "Released",
              ![escrow_id].total_released =
                    checked_add(escrow.total_released, milestone.amount).value]
        /\ paid' = [paid EXCEPT ![escrow_id][milestone_index] = @ + milestone.amount]
        /\ UNCHANGED confVars
        /\ last' = AfterAuth(Outcome("release", escrow_id, milestone_index, "Ok"))

\* ---------------------------------------------------------- cancel_escrow
\* Variant without the "total_released > 0" rejection.
cancel_escrow_NoReleasedCheck(escrow_id, auth, tok) ==
    LET escrow == escrows[escrow_id] IN
    IF ~has(escrow_id) THEN FailsBeforeAuth("cancel", escrow_id, NoIndex, "EscrowNotFound")
    ELSE IF ~auth THEN Fails("cancel", escrow_id, NoIndex, "AuthFailed")
    ELSE IF escrow.status = "Active" /\ ~TransferOk(Contract, escrow.total_amount, tok)
         THEN Fails("cancel", escrow_id, NoIndex, "TokenTransferFailed")
    ELSE
        /\ balance' = IF escrow.status = "Active"
                      THEN Moved(Contract, escrow.depositor, escrow.total_amount)
                      ELSE balance
        /\ escrows' = [escrows EXCEPT ![escrow_id].status = "Cancelled"]
        /\ last' = AfterAuth(Outcome("cancel", escrow_id, NoIndex, "Ok"))
        /\ UNCHANGED <<paid, confVars>>

\* Variant that refunds whatever the status, funded or not.
cancel_escrow_AlwaysRefund(escrow_id, auth, tok) ==
    LET escrow == escrows[escrow_id] IN
    IF ~has(escrow_id) THEN FailsBeforeAuth("cancel", escrow_id, NoIndex, "EscrowNotFound")
    ELSE IF ~auth THEN Fails("cancel", escrow_id, NoIndex, "AuthFailed")
    ELSE IF escrow.total_released > 0
         THEN Fails("cancel", escrow_id, NoIndex, "MilestoneAlreadyReleased")
    ELSE IF ~TransferOk(Contract, escrow.total_amount, tok)
         THEN Fails("cancel", escrow_id, NoIndex, "TokenTransferFailed")
    ELSE
        /\ balance' = Moved(Contract, escrow.depositor, escrow.total_amount)
        /\ escrows' = [escrows EXCEPT ![escrow_id].status = "Cancelled"]
        /\ last' = AfterAuth(Outcome("cancel", escrow_id, NoIndex, "Ok"))
        /\ UNCHANGED <<paid, confVars>>

cancel_escrow(escrow_id, auth, tok) ==
    LET escrow == escrows[escrow_id] IN
    IF ~has(escrow_id) THEN FailsBeforeAuth("cancel", escrow_id, NoIndex, "EscrowNotFound")
    ELSE IF ~auth THEN Fails("cancel", escrow_id, NoIndex, "AuthFailed")
    ELSE IF escrow.total_released > 0
         THEN Fails("cancel", escrow_id, NoIndex, "MilestoneAlreadyReleased")
    ELSE IF escrow.status = "Active" /\ ~TransferOk(Contract, escrow.total_amount, tok)
         THEN Fails("cancel", escrow_id, NoIndex, "TokenTransferFailed")
    ELSE
        /\ balance' = IF escrow.status = "Active"
                      THEN Moved(Contract, escrow.depositor, escrow.total_amount)
                      ELSE balance
        /\ escrows' = [escrows EXCEPT ![escrow_id].status = "Cancelled"]
        /\ last' = AfterAuth(Outcome("cancel", escrow_id, NoIndex, "Ok"))
        /\ UNCHANGED <<paid, confVars>>

\* -------------------------------------------------------- complete_escrow
\* Variant that locks the overlay when the escrow is completed.
complete_escrow_LocksOverlay(escrow_id, auth) ==
    LET escrow == escrows[escrow_id] IN
    IF ~has(escrow_id) THEN FailsBeforeAuth("complete", escrow_id, NoIndex, "EscrowNotFound")
    ELSE IF ~auth THEN Fails("complete", escrow_id, NoIndex, "AuthFailed")
    ELSE IF ~verify_all_released(escrow.milestones)
         THEN Fails("complete", escrow_id, NoIndex, "EscrowNotActive")
    ELSE
        /\ escrows' = [escrows EXCEPT ![escrow_id].status = "Completed"]
        /\ escrow_status' = [id \in DOMAIN escrow_status \cup {escrow_id} |->
                                 IF id = escrow_id THEN 3 ELSE escrow_status[id]]
        /\ last' = AfterAuth(Outcome("complete", escrow_id, NoIndex, "Ok"))
        /\ UNCHANGED <<balance, paid, party_confirmations, conf_count>>

complete_escrow(escrow_id, auth) ==
    LET escrow == escrows[escrow_id] IN
    IF ~has(escrow_id) THEN FailsBeforeAuth("complete", escrow_id, NoIndex, "EscrowNotFound")
    ELSE IF ~auth THEN Fails("complete", escrow_id, NoIndex, "AuthFailed")
    ELSE IF ~verify_all_released(escrow.milestones)
         THEN Fails("complete", escrow_id, NoIndex, "EscrowNotActive")
    ELSE
        /\ escrows' = [escrows EXCEPT ![escrow_id].status = "Completed"]
        /\ last' = AfterAuth(Outcome("complete", escrow_id, NoIndex, "Ok"))
        /\ UNCHANGED <<balance, paid, confVars>>

\* ============================================================ confirmation
\* ---------------------------------------------------------- threshold.rs
\* (total_parties as f64 / 2.0).ceil() as u32
half_ceil(total_parties) == (total_parties + 1) \div 2

max(x, y) == IF x >= y THEN x ELSE y
min(x, y) == IF x <= y THEN x ELSE y

\* Variant that caps a Custom requirement at the number of parties, as
\* get_required_confirmations does.
is_threshold_met_CustomCapped(threshold, confirmations, total_parties) ==
    CASE threshold.kind = "All" -> confirmations >= total_parties
      [] threshold.kind = "Majority" -> confirmations >= half_ceil(total_parties)
      [] threshold.kind = "Custom" ->
            confirmations >= min(threshold.required, total_parties)

\* Variant whose All policy needs more confirmations than there are parties.
is_threshold_met_AllStrict(threshold, confirmations, total_parties) ==
    CASE threshold.kind = "All" -> confirmations > total_parties
      [] threshold.kind = "Majority" -> confirmations >= half_ceil(total_parties)
      [] threshold.kind = "Custom" -> confirmations >= threshold.required

\* Variant whose Majority policy rounds the half down.
is_threshold_met_MajorityFloor(threshold, confirmations, total_parties) ==
    CASE threshold.kind = "All" -> confirmations >= total_parties
      [] threshold.kind = "Majority" -> confirmations >= total_parties \div 2
      [] threshold.kind = "Custom" -> confirmations >= threshold.required

is_threshold_met(threshold, confirmations, total_parties) ==
    CASE threshold.kind = "All" -> confirmations >= total_parties
      [] threshold.kind = "Majority" -> confirmations >= half_ceil(total_parties)
      [] threshold.kind = "Custom" -> confirmations >= threshold.required

\* Variant that leaves a Custom requirement uncapped, as is_threshold_met
\* does.
get_required_confirmations_CustomUncapped(threshold, total_parties) ==
    CASE threshold.kind = "All" -> total_parties
      [] threshold.kind = "Majority" -> max(half_ceil(total_parties), 1)
      [] threshold.kind = "Custom" -> threshold.required

get_required_confirmations(threshold, total_parties) ==
    CASE threshold.kind = "All" -> total_parties
      [] threshold.kind = "Majority" -> max(half_ceil(total_parties), 1)
      [] threshold.kind = "Custom" -> min(threshold.required, total_parties)

get_remaining_confirmations(threshold, confirmations, total_parties) ==
    LET required == get_required_confirmations(threshold, total_parties) IN
    IF confirmations >= required THEN 0 ELSE required - confirmations

\* ------------------------------------------------------------ storage.rs
\* get_status: decode the stored u32, Pending when absent or unknown.
get_status(escrow_id) ==
    IF escrow_id \notin DOMAIN escrow_status THEN "Pending"
    ELSE CASE escrow_status[escrow_id] = 0 -> "Pending"
           [] escrow_status[escrow_id] = 1 -> "Confirmed"
           [] escrow_status[escrow_id] = 2 -> "Failed"
           [] escrow_status[escrow_id] = 3 -> "Locked"
           [] OTHER -> "Pending"

status_code(status) ==
    CASE status = "Pending" -> 0
      [] status = "Confirmed" -> 1
      [] status = "Failed" -> 2
      [] status = "Locked" -> 3

set_status(escrow_id, status) ==
    [id \in DOMAIN escrow_status \cup {escrow_id} |->
        IF id = escrow_id THEN status_code(status) ELSE escrow_status[id]]

get_confirmation_count(escrow_id) ==
    IF escrow_id \in DOMAIN conf_count THEN conf_count[escrow_id] ELSE 0

increment_confirmation_count(escrow_id) ==
    [id \in DOMAIN conf_count \cup {escrow_id} |->
        IF id = escrow_id THEN get_confirmation_count(escrow_id) + 1
        ELSE conf_count[id]]

\* The party map of an escrow, empty when the key is absent.
party_map(escrow_id) ==
    IF escrow_id \in DOMAIN party_confirmations
    THEN party_confirmations[escrow_id] ELSE [p \in {} |-> 0]

has_party_confirmation(escrow_id, party) == party \in DOMAIN party_map(escrow_id)

get_party_confirmation(escrow_id, party) == party_map(escrow_id)[party]

set_party_confirmation(escrow_id, party, confirmation) ==
    [id \in DOMAIN party_confirmations \cup {escrow_id} |->
        IF id = escrow_id
        THEN [p \in DOMAIN party_map(escrow_id) \cup {party} |->
                 IF p = party THEN confirmation ELSE party_map(escrow_id)[p]]
        ELSE party_confirmations[id]]

\* ------------------------------------------------------- confirmation.rs
is_authorized_party(address, parties) ==
    \E i \in 1..Len(parties) : parties[i] = address

ConfFails(escrow_id, caller, res) ==
    /\ last' = [Outcome("confirm", escrow_id, NoIndex, res) EXCEPT !.party = caller]
    /\ UNCHANGED <<ledgerVars, confVars>>

\* Variant that bumps the counter before it looks for a duplicate.
confirm_CountBeforeDuplicateCheck(escrow_id, caller, parties, threshold, timestamp) ==
    LET confirmation_count == get_confirmation_count(escrow_id) + 1
        threshold_met == is_threshold_met(threshold, confirmation_count, Len(parties))
    IN
    IF get_status(escrow_id) = "Locked" THEN ConfFails(escrow_id, caller, "EscrowLocked")
    ELSE IF Len(parties) = 0 THEN ConfFails(escrow_id, caller, "EmptyPartyList")
    ELSE IF ~is_authorized_party(caller, parties)
         THEN ConfFails(escrow_id, caller, "UnauthorizedParty")
    ELSE IF /\ has_party_confirmation(escrow_id, caller)
            /\ get_party_confirmation(escrow_id, caller).state = "Confirmed"
         THEN /\ conf_count' = increment_confirmation_count(escrow_id)
              /\ last' = [Outcome("confirm", escrow_id, NoIndex, "DuplicateConfirmation")
                             EXCEPT !.party = caller]
              /\ UNCHANGED <<ledgerVars, party_confirmations, escrow_status>>
    ELSE
        /\ party_confirmations' = set_party_confirmation(escrow_id, caller,
              [address |-> caller,
               state |-> "Confirmed",
               confirmed_at |-> timestamp,
               confirmation_count |-> confirmation_count])
        /\ conf_count' = increment_confirmation_count(escrow_id)
        /\ escrow_status' = IF threshold_met THEN set_status(escrow_id, "Confirmed")
                            ELSE escrow_status
        /\ last' = [Outcome("confirm", escrow_id, NoIndex, "Ok") EXCEPT
                       !.party = caller,
                       !.confirmations_count = confirmation_count,
                       !.threshold_met = threshold_met]
        /\ UNCHANGED ledgerVars

\* Variant that evaluates the threshold on the counter before the increment.
confirm_ThresholdOnOldCount(escrow_id, caller, parties, threshold, timestamp) ==
    LET confirmation_count == get_confirmation_count(escrow_id) + 1
        threshold_met == is_threshold_met(threshold,
                                          get_confirmation_count(escrow_id),
                                          Len(parties))
    IN
    IF get_status(escrow_id) = "Locked" THEN ConfFails(escrow_id, caller, "EscrowLocked")
    ELSE IF Len(parties) = 0 THEN ConfFails(escrow_id, caller, "EmptyPartyList")
    ELSE IF ~is_authorized_party(caller, parties)
         THEN ConfFails(escrow_id, caller, "UnauthorizedParty")
    ELSE IF /\ has_party_confirmation(escrow_id, caller)
            /\ get_party_confirmation(escrow_id, caller).state = "Confirmed"
         THEN ConfFails(escrow_id, caller, "DuplicateConfirmation")
    ELSE
        /\ party_confirmations' = set_party_confirmation(escrow_id, caller,
              [address |-> caller,
               state |-> "Confirmed",
               confirmed_at |-> timestamp,
               confirmation_count |-> confirmation_count])
        /\ conf_count' = increment_confirmation_count(escrow_id)
        /\ escrow_status' = IF threshold_met THEN set_status(escrow_id, "Confirmed")
                            ELSE escrow_status
        /\ last' = [Outcome("confirm", escrow_id, NoIndex, "Ok") EXCEPT
                       !.party = caller,
                       !.confirmations_count = confirmation_count,
                       !.threshold_met = threshold_met]
        /\ UNCHANGED ledgerVars

\* Variant that writes Pending when the threshold is not met.
confirm_ClearsWhenNotMet(escrow_id, caller, parties, threshold, timestamp) ==
    LET confirmation_count == get_confirmation_count(escrow_id) + 1
        threshold_met == is_threshold_met(threshold, confirmation_count, Len(parties))
    IN
    IF get_status(escrow_id) = "Locked" THEN ConfFails(escrow_id, caller, "EscrowLocked")
    ELSE IF Len(parties) = 0 THEN ConfFails(escrow_id, caller, "EmptyPartyList")
    ELSE IF ~is_authorized_party(caller, parties)
         THEN ConfFails(escrow_id, caller, "UnauthorizedParty")
    ELSE IF /\ has_party_confirmation(escrow_id, caller)
            /\ get_party_confirmation(escrow_id, caller).state = "Confirmed"
         THEN ConfFails(escrow_id, caller, "DuplicateConfirmation")
    ELSE
        /\ party_confirmations' = set_party_confirmation(escrow_id, caller,
              [address |-> caller,
               state |-> "Confirmed",
               confirmed_at |-> timestamp,
               confirmation_count |-> confirmation_count])
        /\ conf_count' = increment_confirmation_count(escrow_id)
        /\ escrow_status' = IF threshold_met THEN set_status(escrow_id, "Confirmed")
                            ELSE set_status(escrow_id, "Pending")
        /\ last' = [Outcome("confirm", escrow_id, NoIndex, "Ok") EXCEPT
                       !.party = caller,
                       !.confirmations_count = confirmation_count,
                       !.threshold_met = threshold_met]
        /\ UNCHANGED ledgerVars

\* Variant without the Locked rejection.
confirm_NoLockedCheck(escrow_id, caller, parties, threshold, timestamp) ==
    LET confirmation_count == get_confirmation_count(escrow_id) + 1
        threshold_met == is_threshold_met(threshold, confirmation_count, Len(parties))
    IN
    IF Len(parties) = 0 THEN ConfFails(escrow_id, caller, "EmptyPartyList")
    ELSE IF ~is_authorized_party(caller, parties)
         THEN ConfFails(escrow_id, caller, "UnauthorizedParty")
    ELSE IF /\ has_party_confirmation(escrow_id, caller)
            /\ get_party_confirmation(escrow_id, caller).state = "Confirmed"
         THEN ConfFails(escrow_id, caller, "DuplicateConfirmation")
    ELSE
        /\ party_confirmations' = set_party_confirmation(escrow_id, caller,
              [address |-> caller,
               state |-> "Confirmed",
               confirmed_at |-> timestamp,
               confirmation_count |-> confirmation_count])
        /\ conf_count' = increment_confirmation_count(escrow_id)
        /\ escrow_status' = IF threshold_met THEN set_status(escrow_id, "Confirmed")
                            ELSE escrow_status
        /\ last' = [Outcome("confirm", escrow_id, NoIndex, "Ok") EXCEPT
                       !.party = caller,
                       !.confirmations_count = confirmation_count,
                       !.threshold_met = threshold_met]
        /\ UNCHANGED ledgerVars

\* Variant that looks at the party list before the Locked status.
confirm_EmptyBeforeLocked(escrow_id, caller, parties, threshold, timestamp) ==
    LET confirmation_count == get_confirmation_count(escrow_id) + 1
        threshold_met == is_threshold_met(threshold, confirmation_count, Len(parties))
    IN
    IF Len(parties) = 0 THEN ConfFails(escrow_id, caller, "EmptyPartyList")
    ELSE IF get_status(escrow_id) = "Locked"
         THEN ConfFails(escrow_id, caller, "EscrowLocked")
    ELSE IF ~is_authorized_party(caller, parties)
         THEN ConfFails(escrow_id, caller, "UnauthorizedParty")
    ELSE IF /\ has_party_confirmation(escrow_id, caller)
            /\ get_party_confirmation(escrow_id, caller).state = "Confirmed"
         THEN ConfFails(escrow_id, caller, "DuplicateConfirmation")
    ELSE
        /\ party_confirmations' = set_party_confirmation(escrow_id, caller,
              [address |-> caller,
               state |-> "Confirmed",
               confirmed_at |-> timestamp,
               confirmation_count |-> confirmation_count])
        /\ conf_count' = increment_confirmation_count(escrow_id)
        /\ escrow_status' = IF threshold_met THEN set_status(escrow_id, "Confirmed")
                            ELSE escrow_status
        /\ last' = [Outcome("confirm", escrow_id, NoIndex, "Ok") EXCEPT
                       !.party = caller,
                       !.confirmations_count = confirmation_count,
                       !.threshold_met = threshold_met]
        /\ UNCHANGED ledgerVars

confirm(escrow_id, caller, parties, threshold, timestamp) ==
    LET confirmation_count == get_confirmation_count(escrow_id) + 1
        threshold_met == is_threshold_met(threshold, confirmation_count, Len(parties))
    IN
    IF get_status(escrow_id) = "Locked" THEN ConfFails(escrow_id, caller, "EscrowLocked")
    ELSE IF Len(parties) = 0 THEN ConfFails(escrow_id, caller, "EmptyPartyList")
    ELSE IF ~is_authorized_party(caller, parties)
         THEN ConfFails(escrow_id, caller, "UnauthorizedParty")
    ELSE IF /\ has_party_confirmation(escrow_id, caller)
            /\ get_party_confirmation(escrow_id, caller).state = "Confirmed"
         THEN ConfFails(escrow_id, caller, "DuplicateConfirmation")
    ELSE
        /\ party_confirmations' = set_party_confirmation(escrow_id, caller,
              [address |-> caller,
               state |-> "Confirmed",
               confirmed_at |-> timestamp,
               confirmation_count |-> confirmation_count])
        /\ conf_count' = increment_confirmation_count(escrow_id)
        /\ escrow_status' = IF threshold_met THEN set_status(escrow_id, "Confirmed")
                            ELSE escrow_status
        /\ last' = [Outcome("confirm", escrow_id, NoIndex, "Ok") EXCEPT
                       !.party = caller,
                       !.confirmations_count = confirmation_count,
                       !.threshold_met = threshold_met]
        /\ UNCHANGED ledgerVars

lock_escrow(escrow_id) ==
    /\ escrow_status' = set_status(escrow_id, "Locked")
    /\ last' = Outcome("lock", escrow_id, NoIndex, "Ok")
    /\ UNCHANGED <<ledgerVars, party_confirmations, conf_count>>

\* Variant that does not look at the Locked status.
can_confirm_IgnoresLocked(escrow_id, party) ==
    IF has_party_confirmation(escrow_id, party)
    THEN get_party_confirmation(escrow_id, party).state # "Confirmed"
    ELSE TRUE

can_confirm(escrow_id, party) ==
    IF get_status(escrow_id) = "Locked" THEN FALSE
    ELSE IF has_party_confirmation(escrow_id, party)
         THEN get_party_confirmation(escrow_id, party).state # "Confirmed"
         ELSE TRUE

get_party_state(escrow_id, party) ==
    IF has_party_confirmation(escrow_id, party)
    THEN get_party_confirmation(escrow_id, party).state ELSE "None"

\* ------------------------------------------------------------ invocations
CreateEscrowOver(inputs) ==
    \E escrow_id \in EscrowIds, depositor \in Parties, recipient \in Parties,
       token_address \in TokenAddresses, milestones \in inputs,
       deadline \in Deadlines, auth \in BOOLEAN :
        create_escrow(escrow_id, depositor, recipient, token_address,
                      milestones, deadline, auth)

CreateEscrow == CreateEscrowOver(MilestoneInputs)

DepositFunds ==
    \E escrow_id \in EscrowIds, auth \in BOOLEAN, tok \in BOOLEAN :
        deposit_funds(escrow_id, auth, tok)

ReleaseMilestone ==
    \E escrow_id \in EscrowIds, milestone_index \in 0..MaxMilestoneLen,
       auth \in BOOLEAN, tok \in BOOLEAN :
        release_milestone(escrow_id, milestone_index, auth, tok)

CancelEscrow ==
    \E escrow_id \in EscrowIds, auth \in BOOLEAN, tok \in BOOLEAN :
        cancel_escrow(escrow_id, auth, tok)

CompleteEscrow ==
    \E escrow_id \in EscrowIds, auth \in BOOLEAN :
        complete_escrow(escrow_id, auth)

ConfirmOver(lists, thresholds, times) ==
    \E escrow_id \in EscrowIds, caller \in ConfParties, parties \in lists,
       threshold \in thresholds, timestamp \in times :
        confirm(escrow_id, caller, parties, threshold, timestamp)

Confirm == ConfirmOver(PartyLists, ConfirmationThreshold, Timestamps)

LockEscrow == \E escrow_id \in EscrowIds : lock_escrow(escrow_id)

\* The escrow contract on its own.
Next ==
    \/ CreateEscrow
    \/ DepositFunds
    \/ ReleaseMilestone
    \/ CancelEscrow
    \/ CompleteEscrow

Spec == Init /\ [][Next]_vars

\* The confirmation module on its own.
NextConfirmation ==
    \/ Confirm
    \/ LockEscrow

SpecConfirmation == Init /\ [][NextConfirmation]_vars

\* The confirmation module when every confirm call supplies a party list of
\* 3 entries and the threshold Custom(5).
ScenarioFLists == {ps \in PartyLists : Len(ps) = 3}

ScenarioFThreshold == [kind |-> "Custom", required |-> 5]

ConfirmScenarioF == ConfirmOver(ScenarioFLists, {ScenarioFThreshold}, Timestamps)

NextScenarioF ==
    \/ ConfirmScenarioF
    \/ LockEscrow

SpecScenarioF == Init /\ [][NextScenarioF]_vars

\* The confirmation module when every confirm call supplies the same
\* duplicate-free party list and the policy All.
FixedParties == <<"alice", "bob", "carol">>

PolicyAll == [kind |-> "All", required |-> 0]

ConfirmFixedList == ConfirmOver({FixedParties}, {PolicyAll}, Timestamps)

NextFixedList ==
    \/ ConfirmFixedList
    \/ LockEscrow

SpecFixedList == Init /\ [][NextFixedList]_vars

\* The escrow contract when the token contract accepts every transfer and
\* cancel_escrow is never invoked; the depositor keeps calling
\* release_milestone on Pending milestones and complete_escrow.
DepositFundsAccepted ==
    \E escrow_id \in EscrowIds, auth \in BOOLEAN :
        deposit_funds(escrow_id, auth, TRUE)

ReleaseMilestoneAccepted ==
    \E escrow_id \in EscrowIds, milestone_index \in 0..MaxMilestoneLen,
       auth \in BOOLEAN :
        release_milestone(escrow_id, milestone_index, auth, TRUE)

DepositorReleasesPending ==
    \E escrow_id \in DOMAIN escrows, milestone_index \in 0..MaxMilestoneLen :
        /\ milestone_index < Len(escrows[escrow_id].milestones)
        /\ escrows[escrow_id].milestones[milestone_index + 1].status = "Pending"
        /\ release_milestone(escrow_id, milestone_index, TRUE, TRUE)

DepositorCompletes ==
    \E escrow_id \in DOMAIN escrows : complete_escrow(escrow_id, TRUE)

NextProgress ==
    \/ CreateEscrow
    \/ DepositFundsAccepted
    \/ ReleaseMilestoneAccepted
    \/ CompleteEscrow

SpecProgress ==
    /\ Init
    /\ [][NextProgress]_vars
    /\ WF_vars(DepositorReleasesPending)
    /\ WF_vars(DepositorCompletes)

\* The threshold engine as a pure function: the initial state holds the
\* arguments of one call, drawn from every policy and every pair of counts
\* up to MaxCustom, and the call records its result.
ThresholdCounts == 0..MaxCustom

ThresholdInputs == ConfirmationThreshold \X ThresholdCounts \X ThresholdCounts

InitThreshold ==
    /\ escrows = [id \in {} |-> 0]
    /\ balance = [a \in Accounts |-> IF a = Contract THEN OtherCustody ELSE InitBalance]
    /\ paid = [id \in EscrowIds |-> [i \in 0..MaxMilestoneLen |-> 0]]
    /\ party_confirmations = [id \in {} |-> 0]
    /\ escrow_status = [id \in {} |-> 0]
    /\ conf_count = [id \in {} |-> 0]
    /\ \E input \in ThresholdInputs :
          last = [Outcome("none", 0, NoIndex, "Ok") EXCEPT !.args = input]

IsThresholdMet ==
    /\ last.op = "none"
    /\ last' = [last EXCEPT
                  !.op = "is_threshold_met",
                  !.threshold_met = is_threshold_met(last.args[1], last.args[2], last.args[3])]
    /\ UNCHANGED <<escrows, balance, paid, party_confirmations, escrow_status, conf_count>>

GetRemainingConfirmations ==
    /\ last.op = "none"
    /\ last' = [last EXCEPT
                  !.op = "get_remaining_confirmations",
                  !.returned = get_remaining_confirmations(last.args[1], last.args[2],
                                                           last.args[3])]
    /\ UNCHANGED <<escrows, balance, paid, party_confirmations, escrow_status, conf_count>>

NextThreshold ==
    \/ IsThresholdMet
    \/ GetRemainingConfirmations

SpecThreshold == InitThreshold /\ [][NextThreshold]_vars

\* Both together, on smaller inputs: shorter milestone vectors, shorter
\* party lists, one timestamp. The vectors carry the status Pending, except
\* for the vectors of unit amounts, which also come marked Disputed.
CreateEscrowAll ==
    CreateEscrowOver({ms \in MilestoneInputsUpTo(AllMilestoneLen) :
                         \/ \A i \in 1..Len(ms) : ms[i].status = "Pending"
                         \/ \A i \in 1..Len(ms) :
                               ms[i].status = "Disputed" /\ ms[i].amount = 1})

ConfirmAll ==
    ConfirmOver(SeqsUpTo(Parties, AllPartyLen),
                {t \in ConfirmationThreshold : t.kind # "Custom"}, {0})

NextAll ==
    \/ CreateEscrowAll
    \/ DepositFunds
    \/ ReleaseMilestone
    \/ CancelEscrow
    \/ CompleteEscrow
    \/ ConfirmAll
    \/ LockEscrow

SpecAll == Init /\ [][NextAll]_vars

\* ================================================================== claims
Stored == DOMAIN escrows

Indices(escrow) == 0..(Len(escrow.milestones) - 1)

\* The step is an invocation of entry point op (every invocation sets last).
Called(op) == last'.op = op

\* The step's invocation passed require_auth (or had no require_auth to pass).
Authenticated == last'.res # "AuthFailed"

LedgerUnchanged == UNCHANGED <<escrows, balance, paid>>

\* C1: in every reachable state every stored escrow has
\* 0 <= total_released <= total_amount.
C1_ReleasedWithinTotal ==
    \A id \in Stored :
        /\ 0 <= escrows[id].total_released
        /\ escrows[id].total_released <= escrows[id].total_amount

\* C1 witness: an escrow after a partial release.
C1_Witness ==
    \E id \in Stored :
        /\ last.op = "release" /\ last.res = "Ok"
        /\ escrows[id].total_released > 0
        /\ escrows[id].total_released < escrows[id].total_amount

\* C2 (as claimed): every status change of a stored escrow is Created->Active
\* by fund, Active->Completed by complete, or Created/Active->Cancelled by
\* cancel; nothing leaves Completed or Cancelled.
C2_OnlyForwardTransitions ==
    [][\A id \in Stored :
          escrows'[id].status # escrows[id].status =>
              <<escrows[id].status, last'.op, escrows'[id].status>> \in
                  {<<"Created", "fund", "Active">>,
                   <<"Active", "complete", "Completed">>,
                   <<"Created", "cancel", "Cancelled">>,
                   <<"Active", "cancel", "Cancelled">>}]_vars

C4_NoDoublePay ==
    [][/\ \A id \in DOMAIN escrows' : \A i \in Indices(escrows'[id]) :
             paid'[id][i] <= escrows'[id].milestones[i + 1].amount
       /\ (Called("release") /\ last'.res = "Ok") => paid[last'.id][last'.idx] = 0]_vars

\* C4 witness: a milestone has been paid, and a second release of it refused.
C4_Witness ==
    /\ last.op = "release" /\ last.res = "MilestoneAlreadyReleased"
    /\ paid[last.id][last.idx] = escrows[last.id].milestones[last.idx + 1].amount

\* The step is an authenticated release of an index whose milestone is
\* already Released.
ReleaseOfReleased(id, i) ==
    /\ Called("release") /\ last'.id = id /\ last'.idx = i
    /\ Authenticated
    /\ id \in Stored
    /\ i \in Indices(escrows[id])
    /\ escrows[id].milestones[i + 1].status = "Released"

\* C5 (as claimed): release of an already Released index fails with
\* MilestoneAlreadyReleased in every reachable state, also after completion,
\* and changes nothing.
C5_Original ==
    [][\A id \in EscrowIds, i \in 0..MaxMilestoneLen :
          ReleaseOfReleased(id, i) =>
              /\ last'.res = "MilestoneAlreadyReleased"
              /\ LedgerUnchanged]_vars

\* C5 (amended): release of an already Released index always fails and
\* changes nothing; the error is MilestoneAlreadyReleased while the escrow is
\* Active and EscrowNotActive once it is no longer Active (Completed).
C5_ReleaseOfReleasedFails ==
    [][\A id \in EscrowIds, i \in 0..MaxMilestoneLen :
          ReleaseOfReleased(id, i) =>
              /\ last'.res = IF escrows[id].status = "Active"
                             THEN "MilestoneAlreadyReleased" ELSE "EscrowNotActive"
              /\ escrows[id].status \in {"Active", "Completed"}
              /\ LedgerUnchanged]_vars

\* C5 witness: a release of a Released index was refused on a Completed escrow.
C5_Witness ==
    /\ last.op = "release" /\ last.res = "EscrowNotActive"
    /\ last.id \in Stored
    /\ escrows[last.id].status = "Completed"
    /\ last.idx \in Indices(escrows[last.id])
    /\ escrows[last.id].milestones[last.idx + 1].status = "Released"

\* C6: a milestone that is Released is Released after every step; no
\* operation, create on the same id included, sets it back to Pending.
C6_ReleasedStaysReleased ==
    [][\A id \in Stored : \A i \in Indices(escrows[id]) :
          escrows[id].milestones[i + 1].status = "Released" =>
              /\ id \in DOMAIN escrows'
              /\ i \in Indices(escrows'[id])
              /\ escrows'[id].milestones[i + 1].status = "Released"]_vars

\* C6 witness: create was called on the id of an escrow with a Released
\* milestone.
C6_Witness ==
    /\ last.op = "create" /\ last.res = "EscrowAlreadyExists"
    /\ \E i \in Indices(escrows[last.id]) :
          escrows[last.id].milestones[i + 1].status = "Released"

\* C7: once total_released > 0, total_released stays positive, the status
\* never becomes Cancelled, every cancel call fails (with
\* MilestoneAlreadyReleased when the depositor authorised it), and the only
\* invocations that still change the record or move value are release and
\* complete.
C7_NoCancelAfterRelease ==
    [][\A id \in Stored :
          escrows[id].total_released > 0 =>
              /\ escrows'[id].total_released > 0
              /\ escrows'[id].status # "Cancelled"
              /\ (Called("cancel") /\ last'.id = id) =>
                    /\ last'.res # "Ok"
                    /\ Authenticated => last'.res = "MilestoneAlreadyReleased"
              /\ ~LedgerUnchanged => last'.op \in {"release", "complete"}]_vars

\* C7 witness: cancel was refused after a payout.
C7_Witness ==
    /\ last.op = "cancel" /\ last.res = "MilestoneAlreadyReleased"
    /\ escrows[last.id].total_released > 0

\* C8: a fund or release call, or a cancel of an Active escrow, during which
\* the token contract refuses the transfer fails as a whole: status,
\* milestone statuses, total_released and balances are as before.
C8_TransferFailureIsAtomic ==
    [][/\ \A id \in EscrowIds, auth \in BOOLEAN :
             (Called("fund") /\ deposit_funds(id, auth, FALSE)) =>
                 (last'.res # "Ok" /\ LedgerUnchanged)
       /\ \A id \in EscrowIds, auth \in BOOLEAN, i \in 0..MaxMilestoneLen :
             (Called("release") /\ release_milestone(id, i, auth, FALSE)) =>
                 (last'.res # "Ok" /\ LedgerUnchanged)
       /\ \A id \in Stored, auth \in BOOLEAN :
             (Called("cancel") /\ escrows[id].status = "Active"
                               /\ cancel_escrow(id, auth, FALSE)) =>
                 (last'.res # "Ok" /\ LedgerUnchanged)
       /\ last'.res = "TokenTransferFailed" =>
             (last'.op \in {"fund", "release", "cancel"} /\ LedgerUnchanged)]_vars

\* C8 witness: the transfer of a release was refused on an Active escrow.
C8_Witness ==
    /\ last.op = "release" /\ last.res = "TokenTransferFailed"
    /\ escrows[last.id].status = "Active"
    /\ escrows[last.id].milestones[last.idx + 1].status = "Pending"

\* C9: an escrow or confirmation invocation that returns an error leaves
\* escrow records, balances, party records, counter and overlay status as
\* they were.
C9_ErrorsCommitNothing ==
    [][last'.res # "Ok" => UNCHANGED <<ledgerVars, confVars>>]_vars

\* C9 witness: a confirm was refused as a duplicate while an escrow is stored.
C9_Witness ==
    /\ last.op = "confirm" /\ last.res = "DuplicateConfirmation"
    /\ get_confirmation_count(last.id) > 0
    /\ Stored # {}

\* C10: a fund, release, cancel or complete call that the depositor did not
\* authorise changes no escrow record and moves no value.
C10_OnlyDepositorTransitions ==
    [][/\ \A id \in EscrowIds, tok \in BOOLEAN :
             (Called("fund") /\ deposit_funds(id, FALSE, tok)) =>
                 (last'.res # "Ok" /\ LedgerUnchanged)
       /\ \A id \in EscrowIds, tok \in BOOLEAN, i \in 0..MaxMilestoneLen :
             (Called("release") /\ release_milestone(id, i, FALSE, tok)) =>
                 (last'.res # "Ok" /\ LedgerUnchanged)
       /\ \A id \in EscrowIds, tok \in BOOLEAN :
             (Called("cancel") /\ cancel_escrow(id, FALSE, tok)) =>
                 (last'.res # "Ok" /\ LedgerUnchanged)
       /\ \A id \in EscrowIds :
             (Called("complete") /\ complete_escrow(id, FALSE)) =>
                 (last'.res # "Ok" /\ LedgerUnchanged)]_vars

\* C10 witness: an unauthorised release of a Pending milestone of an Active
\* escrow was refused.
C10_Witness ==
    /\ last.op = "release" /\ last.res = "AuthFailed"
    /\ escrows[last.id].status = "Active"
    /\ last.idx \in Indices(escrows[last.id])
    /\ escrows[last.id].milestones[last.idx + 1].status = "Pending"

\* ---- C11 ----
LedgerOps == {"create", "fund", "release", "cancel", "complete"}

\* The invocation just made ended in the result res after exactly n
\* require_auth calls and committed nothing.
Rejected(res, n) ==
    /\ last'.res = res
    /\ last'.auth_checks = n
    /\ LedgerUnchanged

\* C11 (as stated): every mutating escrow operation checks the caller's
\* authorisation exactly once and before anything that depends on stored
\* state, so a call whose caller is not authorised ends in the authorisation
\* failure whatever is stored, NotFound included.
C11_Original ==
    [][/\ last'.op \in LedgerOps => last'.auth_checks = 1
       /\ \A id \in EscrowIds, tok \in BOOLEAN :
             /\ (Called("fund") /\ deposit_funds(id, FALSE, tok))
                    => Rejected("AuthFailed", 1)
             /\ (Called("cancel") /\ cancel_escrow(id, FALSE, tok))
                    => Rejected("AuthFailed", 1)
             /\ (Called("complete") /\ complete_escrow(id, FALSE))
                    => Rejected("AuthFailed", 1)
             /\ \A i \in 0..MaxMilestoneLen :
                   (Called("release") /\ release_milestone(id, i, FALSE, tok))
                      => Rejected("AuthFailed", 1)
       /\ \A id \in EscrowIds, d \in Parties, r \in Parties, t \in TokenAddresses,
             ms \in MilestoneInputs, dl \in Deadlines :
             (Called("create") /\ create_escrow(id, d, r, t, ms, dl, FALSE))
                => Rejected("AuthFailed", 1)]_vars

\* The result of fund, release, cancel or complete on id when the caller is
\* not authorised: the record is loaded first, to learn the depositor.
RejectedUnauthorised(id) ==
    IF id \in Stored THEN Rejected("AuthFailed", 1)
    ELSE Rejected("EscrowNotFound", 0)

\* C11 (amended): every mutating escrow operation checks the caller's
\* authorisation at most once and before any stored state is altered or any
\* value moved. create checks it before it reads storage; fund, release,
\* cancel and complete first load the record, so on an id that is not stored
\* they end in NotFound without any authorisation check, and on a stored id
\* an unauthorised call ends in the authorisation failure before any other
\* outcome that depends on the record.
C11_AuthBeforeEffects ==
    /\ last.op \in LedgerOps =>
          last.auth_checks = IF last.res = "EscrowNotFound" THEN 0 ELSE 1
    /\ \A id \in EscrowIds, tok \in BOOLEAN :
          /\ ~ENABLED (deposit_funds(id, FALSE, tok) /\ ~RejectedUnauthorised(id))
          /\ ~ENABLED (cancel_escrow(id, FALSE, tok) /\ ~RejectedUnauthorised(id))
          /\ ~ENABLED (complete_escrow(id, FALSE) /\ ~RejectedUnauthorised(id))
          /\ \A i \in 0..MaxMilestoneLen :
                ~ENABLED (release_milestone(id, i, FALSE, tok)
                            /\ ~RejectedUnauthorised(id))
    /\ \A id \in EscrowIds, d \in Parties, r \in Parties, t \in TokenAddresses,
          ms \in MilestoneInputs, dl \in Deadlines :
          ~ENABLED (create_escrow(id, d, r, t, ms, dl, FALSE)
                      /\ ~Rejected("AuthFailed", 1))

\* An unauthorised fund of a funded escrow was turned away.
C11_Witness ==
    /\ last.op = "fund" /\ last.res = "AuthFailed"
    /\ last.id \in Stored /\ escrows[last.id].status = "Active"

\* ---- C12 ----
\* C12: every stored escrow has total_amount > 0.
C12_TotalAmountPositive ==
    \A id \in Stored : escrows[id].total_amount > 0

\* ---- C13 ----
\* Sum of the first n amounts of a milestone vector.
RECURSIVE SumAmounts(_, _)
SumAmounts(ms, n) == IF n = 0 THEN 0 ELSE SumAmounts(ms, n - 1) + ms[n].amount

NonPositive(ms) == {i \in 1..Len(ms) : ms[i].amount <= 0}

FirstNonPositive(ms) == CHOOSE i \in NonPositive(ms) : \A j \in NonPositive(ms) : i <= j

\* Every stored record has distinct parties, at most 20 milestones and only
\* positive amounts.
WellFormed(escrow) ==
    /\ escrow.depositor # escrow.recipient
    /\ Len(escrow.milestones) <= MAX_MILESTONES
    /\ \A i \in 1..Len(escrow.milestones) : escrow.milestones[i].amount > 0

CreateRejected(id, d, r, ms) ==
    /\ d = r => Rejected("SelfDealing", 1)
    /\ (d # r /\ id \in Stored /\ (Len(ms) > MAX_MILESTONES \/ NonPositive(ms) # {}))
          => Rejected("EscrowAlreadyExists", 1)
    /\ (d # r /\ id \notin Stored /\ Len(ms) > MAX_MILESTONES)
          => Rejected("VectorTooLarge", 1)
    /\ (d # r /\ id \notin Stored /\ Len(ms) <= MAX_MILESTONES /\ NonPositive(ms) # {})
          => IF SumAmounts(ms, FirstNonPositive(ms) - 1) <= I128_MAX
             THEN Rejected("ZeroAmount", 1)
             ELSE Rejected("InvalidMilestoneAmount", 1)

Created(d, r, t, ms, dl) ==
    [depositor |-> d,
     recipient |-> r,
     token_address |-> t,
     total_amount |-> SumAmounts(ms, Len(ms)),
     total_released |-> 0,
     milestones |-> [i \in 1..Len(ms) |->
                       [amount |-> ms[i].amount, status |-> "Pending",
                        description |-> ms[i].description]],
     status |-> "Created",
     deadline |-> dl]

\* C14: a successful create stores, under its id, a record with status
\* Created, total_released 0, total_amount the sum of the supplied amounts
\* and every milestone Pending whatever status was supplied; it leaves every
\* other record and every balance as they were.
C14_CreateStoresFreshRecord ==
    [][(Called("create") /\ last'.res = "Ok") =>
          \A id \in EscrowIds, d \in Parties, r \in Parties, t \in TokenAddresses,
             ms \in MilestoneInputs, dl \in Deadlines, auth \in BOOLEAN :
             create_escrow(id, d, r, t, ms, dl, auth) =>
                 /\ DOMAIN escrows' = Stored \cup {id}
                 /\ escrows'[id] = Created(d, r, t, ms, dl)
                 /\ \A other \in Stored \ {id} : escrows'[other] = escrows[other]
                 /\ UNCHANGED <<balance, paid>>]_vars

\* A create has just stored a record with milestones.
C14_Witness ==
    /\ last.op = "create" /\ last.res = "Ok"
    /\ last.id \in Stored
    /\ Len(escrows[last.id].milestones) > 0
    /\ escrows[last.id].status = "Created"

\* ---- C15 ----
\* C15 (as stated, for calls the depositor authorised): create on an id in
\* use fails with AlreadyExists whatever the status of the stored escrow and
\* leaves the ledger unchanged.
C15_Original ==
    [][(Called("create") /\ last'.id \in Stored /\ Authenticated)
          => Rejected("EscrowAlreadyExists", 1)]_vars

\* What a create on an id in use must end in.
CreateOnUsedId(d, r, auth) ==
    IF ~auth THEN Rejected("AuthFailed", 1)
    ELSE IF d = r THEN Rejected("SelfDealing", 1)
    ELSE Rejected("EscrowAlreadyExists", 1)

\* C15 (amended): create on an id in use always fails and leaves the stored
\* record unchanged whatever its status, so an id is never reset or reused;
\* an authorised call fails with AlreadyExists when depositor # recipient
\* and with SelfDealing when depositor = recipient. The first conjunct
\* covers every create step; the second ties the error to the arguments, for
\* the shorter milestone vectors.
C15_IdNeverReused ==
    /\ [][(Called("create") /\ last'.id \in Stored) =>
             \/ Rejected("AuthFailed", 1)
             \/ Rejected("SelfDealing", 1)
             \/ Rejected("EscrowAlreadyExists", 1)]_vars
    /\ [](\A id \in Stored, d \in Parties, r \in Parties, t \in TokenAddresses,
             ms \in MilestoneInputsUpTo(AllMilestoneLen), dl \in Deadlines,
             auth \in BOOLEAN :
             ~ENABLED (create_escrow(id, d, r, t, ms, dl, auth)
                         /\ ~CreateOnUsedId(d, r, auth)))

\* A create on the id of a completed escrow was turned away.
C15_Witness ==
    /\ last.op = "create" /\ last.res = "EscrowAlreadyExists"
    /\ last.id \in Stored
    /\ escrows[last.id].status = "Completed"
    /\ escrows[last.id].total_released > 0

\* ---- C16 ----
\* The balances after amount has gone from one account to another.
BalancesAfter(from, to, amount) ==
    /\ balance'[from] = balance[from] - amount
    /\ balance'[to] = balance[to] + amount
    /\ \A a \in Accounts \ {from, to} : balance'[a] = balance[a]

\* C16: a fund call succeeds only on a Created escrow; it then sets status
\* Active, changes nothing else in the record and pulls exactly total_amount
\* from the depositor into custody. On an escrow in any other status it fails
\* and moves nothing, with AlreadyFunded when the depositor authorised the
\* call. No escrow ever returns to Created, so at most one fund call per
\* escrow succeeds.
C16_FundOnlyCreatedOnce ==
    [][/\ Called("fund") =>
             LET id == last'.id IN
             /\ last'.res = "Ok" =>
                   /\ id \in Stored
                   /\ escrows[id].status = "Created"
                   /\ escrows' = [escrows EXCEPT ![id].status = "Active"]
                   /\ escrows[id].depositor # Contract
                   /\ BalancesAfter(escrows[id].depositor, Contract,
                                    escrows[id].total_amount)
                   /\ UNCHANGED paid
             /\ (id \in Stored /\ escrows[id].status # "Created") =>
                   /\ last'.res # "Ok"
                   /\ LedgerUnchanged
                   /\ Authenticated => last'.res = "EscrowAlreadyFunded"
       /\ \A id \in Stored :
             escrows[id].status # "Created" =>
                 (id \in DOMAIN escrows' /\ escrows'[id].status # "Created")]_vars

\* A second fund of a funded escrow was turned away.
C16_Witness ==
    /\ last.op = "fund" /\ last.res = "EscrowAlreadyFunded"
    /\ last.id \in Stored
    /\ escrows[last.id].status = "Active"
    /\ balance[Contract] = OtherCustody + escrows[last.id].total_amount

\* ---- C17 ----
\* C17: a successful release(id, i) pushes exactly milestone i's amount from
\* custody to the recipient, sets milestone i to Released, adds exactly that
\* amount to total_released and leaves every other milestone, the status
\* (Active) and the rest of the record unchanged.
C17_ReleaseEffect ==
    [][(Called("release") /\ last'.res = "Ok") =>
          LET id == last'.id
              i == last'.idx
          IN
          /\ id \in Stored
          /\ i \in Indices(escrows[id])
          /\ escrows[id].recipient # Contract
          /\ BalancesAfter(Contract, escrows[id].recipient,
                           escrows[id].milestones[i + 1].amount)
          /\ DOMAIN escrows' = Stored
          /\ escrows'[id].milestones[i + 1].status = "Released"
          /\ escrows'[id].total_released =
                escrows[id].total_released + escrows[id].milestones[i + 1].amount
          /\ \A j \in Indices(escrows[id]) \ {i} :
                escrows'[id].milestones[j + 1] = escrows[id].milestones[j + 1]
          /\ escrows[id].status = "Active"
          /\ escrows'[id] = [escrows[id] EXCEPT
                !.milestones[i + 1].status = "Released",
                !.total_released = escrows'[id].total_released]
          /\ \A other \in Stored \ {id} : escrows'[other] = escrows[other]]_vars

\* One of two milestones has just been released; the other is still Pending.
C17_Witness ==
    /\ last.op = "release" /\ last.res = "Ok"
    /\ last.id \in Stored
    /\ Len(escrows[last.id].milestones) = 2
    /\ \E j \in Indices(escrows[last.id]) :
          escrows[last.id].milestones[j + 1].status = "Pending"
    /\ escrows[last.id].status = "Active"

\* ---- C18 ----
\* C18: release succeeds only on an Active escrow. On a Created, Completed
\* or Cancelled escrow it fails whatever the index, and on an Active escrow
\* with index >= number of milestones it fails; nothing moves in either
\* case. When the depositor authorised the call the error is NotActive in
\* the first case and MilestoneNotFound in the second.
C18_ReleaseOnlyFromActive ==
    [][Called("release") =>
          LET id == last'.id
              i == last'.idx
          IN
          /\ last'.res = "Ok" => (id \in Stored /\ escrows[id].status = "Active")
          /\ (id \in Stored /\ escrows[id].status # "Active") =>
                /\ last'.res # "Ok"
                /\ LedgerUnchanged
                /\ Authenticated => last'.res = "EscrowNotActive"
          /\ (id \in Stored /\ escrows[id].status = "Active"
                 /\ i >= Len(escrows[id].milestones)) =>
                /\ last'.res # "Ok"
                /\ LedgerUnchanged
                /\ Authenticated => last'.res = "MilestoneNotFound"]_vars

\* A release with an index past the end was turned away as NotActive on a
\* cancelled escrow.
C18_Witness ==
    /\ last.op = "release" /\ last.res = "EscrowNotActive"
    /\ last.id \in Stored
    /\ escrows[last.id].status = "Cancelled"
    /\ last.idx >= Len(escrows[last.id].milestones)
    /\ Len(escrows[last.id].milestones) > 0

\* ---- C19 ----
\* C19: a successful cancel sets status Cancelled and changes nothing else
\* in the record; from Active it refunds exactly total_amount from custody
\* to the depositor, and from Created (or any other status) it makes no
\* transfer.
C19_CancelEffect ==
    [][(Called("cancel") /\ last'.res = "Ok") =>
          LET id == last'.id IN
          /\ id \in Stored
          /\ escrows' = [escrows EXCEPT ![id].status = "Cancelled"]
          /\ UNCHANGED paid
          /\ escrows[id].depositor # Contract
          /\ escrows[id].status = "Active" =>
                BalancesAfter(Contract, escrows[id].depositor,
                              escrows[id].total_amount)
          /\ escrows[id].status = "Created" => UNCHANGED balance
          /\ escrows[id].status # "Active" => UNCHANGED balance]_vars

\* An escrow with money in it has just been cancelled and nothing of it is
\* left in custody.
C19_Witness ==
    /\ last.op = "cancel" /\ last.res = "Ok"
    /\ last.id \in Stored
    /\ escrows[last.id].status = "Cancelled"
    /\ escrows[last.id].total_amount > 0
    /\ balance[Contract] = OtherCustody
    /\ balance[escrows[last.id].depositor] = InitBalance

\* ---- C20 ----
\* The part of a record that is fixed at creation.
Terms(escrow) ==
    [depositor |-> escrow.depositor,
     recipient |-> escrow.recipient,
     token_address |-> escrow.token_address,
     total_amount |-> escrow.total_amount,
     deadline |-> escrow.deadline,
     milestones |-> [i \in 1..Len(escrow.milestones) |->
                       [amount |-> escrow.milestones[i].amount,
                        description |-> escrow.milestones[i].description]]]

\* C20: once a record is stored no step removes it or changes its
\* depositor, recipient, asset, total_amount or deadline, nor the number,
\* order, amounts or descriptions of its milestones; only status,
\* total_released and the milestone statuses change.
C20_TermsNeverChange ==
    [][\/ UNCHANGED escrows
       \/ \A id \in Stored :
             /\ id \in DOMAIN escrows'
             /\ DOMAIN escrows'[id] = DOMAIN escrows[id]
             /\ Terms(escrows'[id]) = Terms(escrows[id])]_vars

\* An escrow has been funded, paid out in two milestones and completed.
C20_Witness ==
    /\ last.op = "complete" /\ last.res = "Ok"
    /\ last.id \in Stored
    /\ escrows[last.id].status = "Completed"
    /\ Len(escrows[last.id].milestones) = 2
    /\ escrows[last.id].total_released = escrows[last.id].total_amount

\* ================================================= confirmation claims
\* The overlay status, read from the stored code as a reader of the storage
\* key sees it.
Overlay(id) ==
    IF id \notin DOMAIN escrow_status THEN "Pending"
    ELSE IF escrow_status[id] = 1 THEN "Confirmed"
    ELSE IF escrow_status[id] = 2 THEN "Failed"
    ELSE IF escrow_status[id] = 3 THEN "Locked"
    ELSE "Pending"

\* The addresses with a Confirmed record for the escrow.
ConfirmedParties(id) ==
    IF id \notin DOMAIN party_confirmations THEN {}
    ELSE {p \in DOMAIN party_confirmations[id] :
             party_confirmations[id][p].state = "Confirmed"}

Counter(id) == IF id \in DOMAIN conf_count THEN conf_count[id] ELSE 0

Members(parties) == {parties[i] : i \in 1..Len(parties)}

ConfUnchanged == UNCHANGED <<party_confirmations, escrow_status, conf_count>>

\* ---- C21 ----
\* The result the precondition order of confirm prescribes.
FirstFailure(id, caller, parties) ==
    IF Overlay(id) = "Locked" THEN "EscrowLocked"
    ELSE IF Len(parties) = 0 THEN "EmptyPartyList"
    ELSE IF caller \notin Members(parties) THEN "UnauthorizedParty"
    ELSE IF caller \in ConfirmedParties(id) THEN "DuplicateConfirmation"
    ELSE "Ok"

\* C21: confirm checks Locked, then the empty party list, then the caller's
\* membership, then the caller's Confirmed record, and returns the error of
\* the first check that fails (and succeeds when none does).
C21_PreconditionOrder ==
    [](\A id \in EscrowIds, caller \in ConfParties, parties \in PartyLists,
          threshold \in ConfirmationThreshold, timestamp \in Timestamps :
          ~ENABLED (/\ confirm(id, caller, parties, threshold, timestamp)
                    /\ last'.res # FirstFailure(id, caller, parties)))

\* A party that had already confirmed was told EscrowLocked, not
\* DuplicateConfirmation.
C21_Witness ==
    /\ last.op = "confirm" /\ last.res = "EscrowLocked"
    /\ Overlay(last.id) = "Locked"
    /\ last.party \in ConfirmedParties(last.id)

\* ---- C22 ----
\* C22: lockEscrow leaves the overlay Locked whatever it was; a Locked
\* overlay stays Locked in every later state; and every confirm on a Locked
\* overlay fails with EscrowLocked and changes neither the counter nor any
\* party record.
C22_LockedIsTerminal ==
    [][\A id \in EscrowIds :
          /\ (Called("lock") /\ last'.id = id) => Overlay(id)' = "Locked"
          /\ Overlay(id) = "Locked" => Overlay(id)' = "Locked"
          /\ (Called("confirm") /\ last'.id = id /\ Overlay(id) = "Locked") =>
                /\ last'.res = "EscrowLocked"
                /\ ConfUnchanged]_vars

\* After two confirmations and a lock, a third party was turned away.
C22_Witness ==
    /\ last.op = "confirm" /\ last.res = "EscrowLocked"
    /\ Overlay(last.id) = "Locked"
    /\ Counter(last.id) = 2
    /\ last.party \notin ConfirmedParties(last.id)

\* ---- C23 ----
\* C23: the confirmation counter of an escrow never decreases; a successful
\* confirm adds exactly 1 to it, and a failed confirm and lockEscrow leave
\* it as it was.
C23_CounterMonotone ==
    [][\A id \in EscrowIds :
          /\ Counter(id)' >= Counter(id)
          /\ (Called("confirm") /\ last'.id = id /\ last'.res = "Ok")
                => Counter(id)' = Counter(id) + 1
          /\ (Called("confirm") /\ last'.res # "Ok") => Counter(id)' = Counter(id)
          /\ Called("lock") => Counter(id)' = Counter(id)]_vars

\* Three confirmations were counted and a repeated one was not.
C23_Witness ==
    /\ last.op = "confirm" /\ last.res = "DuplicateConfirmation"
    /\ Counter(last.id) = 3

\* ---- C24 ----
Records(id) ==
    IF id \in DOMAIN party_confirmations THEN party_confirmations[id]
    ELSE [p \in {} |-> 0]

\* What a confirm call with the given arguments must do, as far as it
\* depends on the arguments.
ConfirmOnce(id, caller, parties, threshold, timestamp) ==
    /\ caller \in ConfirmedParties(id) =>
          /\ last'.res # "Ok"
          /\ ConfUnchanged
          /\ (Overlay(id) # "Locked" /\ caller \in Members(parties))
                => last'.res = "DuplicateConfirmation"
    /\ last'.res = "Ok" =>
          /\ last'.party = caller
          /\ last'.confirmations_count = Counter(id) + 1
          /\ last'.threshold_met =
                is_threshold_met(threshold, Counter(id) + 1, Len(parties))
          /\ Records(id)'[caller].confirmed_at = timestamp
          /\ (Len(parties) = 3 /\ threshold.kind = "Majority" /\ Counter(id) = 0)
                => (last'.confirmations_count = 1 /\ ~last'.threshold_met)
          /\ (Len(parties) = 3 /\ threshold.kind = "Majority" /\ Counter(id) = 1)
                => (last'.confirmations_count = 2 /\ last'.threshold_met)

\* C24: a party confirms at most once per escrow. A confirm by a caller
\* whose record is Confirmed fails and changes nothing, with
\* DuplicateConfirmation when the earlier preconditions of C21 hold. A
\* successful confirm is by a party without a Confirmed record; it sets that
\* party's record to Confirmed with confirmation_count the new counter,
\* leaves every other record as it was, and returns an event with
\* confirmations_count the new counter and threshold_met the threshold
\* engine's result for (threshold, new counter, length of parties). With 3
\* parties and Majority the first confirm reports 1 / not met, the second
\* 2 / met. No record ever stops being Confirmed.
C24_ConfirmAtMostOnce ==
    /\ [][\A id \in EscrowIds :
             /\ ConfirmedParties(id) \subseteq ConfirmedParties(id)'
             /\ (Called("confirm") /\ last'.id = id /\ last'.res = "Ok") =>
                   /\ last'.party \notin ConfirmedParties(id)
                   /\ DOMAIN Records(id)' = DOMAIN Records(id) \cup {last'.party}
                   /\ Records(id)'[last'.party].address = last'.party
                   /\ Records(id)'[last'.party].state = "Confirmed"
                   /\ Records(id)'[last'.party].confirmation_count = Counter(id)'
                   /\ last'.confirmations_count = Counter(id)'
                   /\ \A q \in DOMAIN Records(id) \ {last'.party} :
                         Records(id)'[q] = Records(id)[q]]_vars
    /\ [](\A id \in EscrowIds, caller \in ConfParties, parties \in PartyLists,
             threshold \in ConfirmationThreshold, timestamp \in Timestamps :
             ~ENABLED (/\ confirm(id, caller, parties, threshold, timestamp)
                       /\ ~ConfirmOnce(id, caller, parties, threshold, timestamp)))

\* The second of three parties has just confirmed and the threshold was
\* reported met.
C24_Witness ==
    /\ last.op = "confirm" /\ last.res = "Ok"
    /\ last.confirmations_count = 2 /\ last.threshold_met
    /\ Cardinality(ConfirmedParties(last.id)) = 2
    /\ Overlay(last.id) = "Confirmed"

\* ---- C25 ----
\* C25: the overlay becomes Confirmed only in a successful confirm that
\* reports its threshold met; a confirm never takes a Confirmed overlay
\* away, whatever list and threshold it supplies and whether or not it
\* succeeds or meets the threshold; no step sets an overlay back to Pending;
\* only lockEscrow changes a Confirmed overlay, to Locked.
C25_ConfirmedLatch ==
    [][\A id \in EscrowIds :
          /\ (Overlay(id) # "Confirmed" /\ Overlay(id)' = "Confirmed") =>
                /\ Called("confirm") /\ last'.id = id
                /\ last'.res = "Ok" /\ last'.threshold_met
          /\ (Overlay(id) = "Confirmed" /\ Called("confirm")) =>
                Overlay(id)' = "Confirmed"
          /\ (Overlay(id) = "Confirmed" /\ Overlay(id)' # "Confirmed") =>
                /\ Called("lock") /\ last'.id = id
                /\ Overlay(id)' = "Locked"
          /\ Overlay(id)' = "Pending" => Overlay(id) = "Pending"]_vars

\* The overlay is Confirmed although the confirm just made did not meet the
\* threshold it supplied.
C25_Witness ==
    /\ last.op = "confirm" /\ last.res = "Ok" /\ ~last.threshold_met
    /\ Overlay(last.id) = "Confirmed"

\* ---- C26 ----
\* C26: canConfirm(id, party) is false exactly when the overlay is Locked or
\* the party has a Confirmed record, and whenever it is false no confirm by
\* that party succeeds, whatever party list and threshold it supplies.
C26_CanConfirm ==
    \A id \in EscrowIds, party \in ConfParties :
       /\ ~can_confirm(id, party)
             <=> (Overlay(id) = "Locked" \/ party \in ConfirmedParties(id))
       /\ ~can_confirm(id, party) =>
             \A parties \in PartyLists, threshold \in ConfirmationThreshold,
                timestamp \in Timestamps :
                ~ENABLED (/\ confirm(id, party, parties, threshold, timestamp)
                          /\ ~(last'.res # "Ok" /\ ConfUnchanged))

\* A party that cannot confirm, on an overlay that is not Locked, tried and
\* failed.
C26_Witness ==
    /\ last.op = "confirm" /\ last.res = "DuplicateConfirmation"
    /\ ~can_confirm(last.id, last.party)
    /\ Overlay(last.id) # "Locked"
    /\ \E other \in ConfParties : can_confirm(last.id, other)

\* ---- C27 ----
\* C27: when every confirm call supplies a 3-entry party list and
\* Custom(5), no confirm reports threshold_met and the overlay never
\* becomes Confirmed.
C27_Custom5Of3NeverMet ==
    /\ last.op = "confirm" => ~last.threshold_met
    /\ \A id \in EscrowIds : Overlay(id) # "Confirmed"

\* All three parties have confirmed and the overlay is still Pending.
C27_Witness ==
    /\ last.op = "confirm" /\ last.res = "Ok" /\ ~last.threshold_met
    /\ Counter(last.id) = 3
    /\ ConfirmedParties(last.id) = ConfParties
    /\ Overlay(last.id) = "Pending"

\* ---- C28 ----
\* A direct call of is_threshold_met with the given policy has returned.
ThresholdCall(kind) ==
    /\ last.op = "is_threshold_met"
    /\ last.args[1].kind = kind

\* C28: for policy All and every n >= 1, is_threshold_met(All, c, n) is
\* true exactly when c >= n; in particular it is true for (n, n) and false
\* for (n - 1, n).
C28_AllMetExactlyAtN ==
    (ThresholdCall("All") /\ last.args[3] >= 1) =>
        LET c == last.args[2]
            n == last.args[3]
        IN  /\ last.threshold_met <=> (c >= n)
            /\ c = n => last.threshold_met
            /\ c = n - 1 => ~last.threshold_met

\* All with 2 of 3 confirmations is not met.
C28_Witness ==
    /\ ThresholdCall("All")
    /\ last.args[2] = 2 /\ last.args[3] = 3
    /\ ~last.threshold_met

\* ---- C29 ----
\* ceil(n / 2): the least m with 2 * m >= n.
CeilHalf(n) == CHOOSE m \in 0..n : 2 * m >= n /\ \A l \in 0..(m - 1) : 2 * l < n

\* C29: for policy Majority and every n >= 1, is_threshold_met(Majority,
\* c, n) is true exactly when c >= ceil(n / 2); in particular it is true
\* for (ceil(n / 2), n) and false for (ceil(n / 2) - 1, n).
C29_MajorityMetExactlyAtCeilHalf ==
    (ThresholdCall("Majority") /\ last.args[3] >= 1) =>
        LET c == last.args[2]
            n == last.args[3]
        IN  /\ last.threshold_met <=> (c >= CeilHalf(n))
            /\ c = CeilHalf(n) => last.threshold_met
            /\ c = CeilHalf(n) - 1 => ~last.threshold_met

\* Majority with 1 of 3 confirmations, one short of ceil(3 / 2), is not met.
C29_Witness ==
    /\ ThresholdCall("Majority")
    /\ last.args[3] = 3 /\ last.args[2] = CeilHalf(3) - 1
    /\ ~last.threshold_met

\* ---- C30 ----
\* C30: for policy Custom(k), is_threshold_met(Custom(k), c, n) is true
\* exactly when c >= k, whatever n is and without capping k at n: Custom(0)
\* is met by any count, and Custom(k) with k > n is not met by c = n.
C30_CustomMetExactlyAtK ==
    ThresholdCall("Custom") =>
        LET k == last.args[1].required
            c == last.args[2]
            n == last.args[3]
        IN  /\ last.threshold_met <=> (c >= k)
            /\ k = 0 => last.threshold_met
            /\ (k > n /\ c = n) => ~last.threshold_met

\* Custom(5) with 3 of 3 confirmations is not met.
C30_Witness ==
    /\ ThresholdCall("Custom")
    /\ last.args[1].required = 5
    /\ last.args[2] = 3 /\ last.args[3] = 3
    /\ ~last.threshold_met

\* ---- C31 ----
\* required, as the claim states it: n for All, max(ceil(n / 2), 1) for
\* Majority, min(k, n) for Custom(k).
RequiredOf(threshold, n) ==
    CASE threshold.kind = "All" -> n
      [] threshold.kind = "Majority" -> IF CeilHalf(n) >= 1 THEN CeilHalf(n) ELSE 1
      [] threshold.kind = "Custom" -> IF threshold.required <= n THEN threshold.required ELSE n

\* C31: get_remaining_confirmations(policy, c, n) is max(0, required - c)
\* for required as above; it never underflows (the result is at most
\* required) and is 0 whenever c >= required.
C31_RemainingIsRequiredMinusCount ==
    last.op = "get_remaining_confirmations" =>
        LET required == RequiredOf(last.args[1], last.args[3])
            c == last.args[2]
        IN  /\ last.returned = IF required - c >= 0 THEN required - c ELSE 0
            /\ last.returned \in 0..required
            /\ c >= required => last.returned = 0

\* Custom(5) with 3 parties and all 3 confirmed: nothing remains, although
\* the threshold itself is not met; and a count above the requirement
\* leaves 0, not a wrapped difference.
C31_Witness ==
    /\ last.op = "get_remaining_confirmations"
    /\ last.args[1] = [kind |-> "Custom", required |-> 5]
    /\ last.args[3] = 3 /\ last.args[2] > 3
    /\ last.returned = 0

\* ---- C32 ----
\* C32: in every reachable state no stored milestone is Disputed, every
\* stored party confirmation record is Confirmed (none Rejected, none
\* Pending), and no overlay status is Failed.
C32_UnusedMembersNeverStored ==
    /\ \A id \in Stored : \A i \in 1..Len(escrows[id].milestones) :
           escrows[id].milestones[i].status \in {"Pending", "Released"}
    /\ \A id \in DOMAIN party_confirmations :
           \A p \in DOMAIN party_confirmations[id] :
               party_confirmations[id][p].state = "Confirmed"
    /\ \A id \in DOMAIN escrow_status :
           /\ escrow_status[id] \in {1, 3}
           /\ Overlay(id) # "Failed"

\* An escrow with a Released milestone is stored, a party has a record and
\* the overlay has been locked after reaching Confirmed or not.
C32_Witness ==
    /\ \E id \in Stored : \E i \in 1..Len(escrows[id].milestones) :
           escrows[id].milestones[i].status = "Released"
    /\ \E id \in DOMAIN party_confirmations : DOMAIN party_confirmations[id] # {}
    /\ \E id \in DOMAIN escrow_status : Overlay(id) = "Locked"

\* ---- C33 ----
ConfirmationOps == {"confirm", "lock"}

\* The escrow has ended (Completed or Cancelled), its overlay was not
\* locked, and the party has no Confirmed record for it.
EndedUnlocked(id, party) ==
    /\ id \in Stored
    /\ escrows[id].status \in {"Completed", "Cancelled"}
    /\ Overlay(id) # "Locked"
    /\ party \notin ConfirmedParties(id)

\* C33: no escrow operation (create, fund, release, cancel, complete)
\* changes the overlay status, the confirmation counter or the party
\* records, and no confirmation operation changes an escrow record, a
\* balance or the payout history; so for an escrow that is Completed or
\* Cancelled and whose overlay nobody locked, confirm by a listed party
\* without a record still succeeds.
C33_OverlayNotSynchronised ==
    /\ [][/\ last'.op \in LedgerOps => UNCHANGED confVars
          /\ last'.op \in ConfirmationOps => UNCHANGED ledgerVars]_vars
    /\ [](\A id \in EscrowIds, party \in Parties :
             EndedUnlocked(id, party) =>
                 ENABLED (/\ confirm(id, party, <<party>>,
                                     [kind |-> "All", required |-> 0], 0)
                          /\ last'.res = "Ok"
                          /\ UNCHANGED escrows))

\* A party confirmed for an escrow that was already Completed, and the
\* overlay became Confirmed rather than Locked.
C33_Witness ==
    /\ last.op = "confirm" /\ last.res = "Ok" /\ last.threshold_met
    /\ last.id \in Stored
    /\ escrows[last.id].status = "Completed"
    /\ Overlay(last.id) = "Confirmed"

\* ---- C34 ----
\* What the contract should hold for an escrow: the unreleased remainder
\* while it is Active or Completed, nothing otherwise.
CustodyDue(id) ==
    IF id \in Stored /\ escrows[id].status \in {"Active", "Completed"}
    THEN escrows[id].total_amount - escrows[id].total_released
    ELSE 0

RECURSIVE SumCustodyDue(_)
SumCustodyDue(ids) ==
    IF ids = {} THEN 0
    ELSE LET id == CHOOSE x \in ids : TRUE
         IN  CustodyDue(id) + SumCustodyDue(ids \ {id})

\* What the contract holds on behalf of the escrows: its token balance
\* beyond what it held before any escrow was funded, which is what fund
\* pulled in minus what release and cancel pushed out.
CustodyHeld == balance[Contract] - OtherCustody

\* C34: the net amount in custody for the escrows (pulled by fund, minus
\* pushed by release and by cancel) is total_amount - total_released while
\* the status is Active or Completed and 0 while it is Created or
\* Cancelled; it is never negative.
C34_CustodyConservation ==
    /\ CustodyHeld = SumCustodyDue(EscrowIds)
    /\ CustodyHeld >= 0
    /\ \A id \in EscrowIds : CustodyDue(id) >= 0

\* An Active escrow after a partial payout: the remainder is in custody.
C34_Witness ==
    /\ last.op = "release" /\ last.res = "Ok"
    /\ escrows[last.id].status = "Active"
    /\ escrows[last.id].total_released > 0
    /\ CustodyHeld = escrows[last.id].total_amount - escrows[last.id].total_released
    /\ CustodyHeld > 0

\* ---- C35 ----
\* The sum of the amounts of the Released milestones among the first n.
RECURSIVE SumReleased(_, _)
SumReleased(ms, n) ==
    IF n = 0 THEN 0
    ELSE SumReleased(ms, n - 1)
            + (IF ms[n].status = "Released" THEN ms[n].amount ELSE 0)

\* C35: total_released of every stored escrow is the sum of the amounts of
\* its Released milestones; hence a Completed escrow has every milestone
\* Released and total_released = total_amount.
C35_ReleasedIsSumOfReleased ==
    \A id \in Stored :
        LET escrow == escrows[id] IN
        /\ escrow.total_released = SumReleased(escrow.milestones, Len(escrow.milestones))
        /\ escrow.status = "Completed" =>
              /\ \A i \in 1..Len(escrow.milestones) :
                     escrow.milestones[i].status = "Released"
              /\ escrow.total_released = escrow.total_amount

\* One of two milestones has been paid: total_released is its amount alone.
C35_Witness ==
    /\ last.op = "release" /\ last.res = "Ok"
    /\ Len(escrows[last.id].milestones) = 2
    /\ \E i, j \in 1..2 :
          /\ escrows[last.id].milestones[i].status = "Released"
          /\ escrows[last.id].milestones[j].status = "Pending"
          /\ escrows[last.id].total_released = escrows[last.id].milestones[i].amount

\* ---- C36 ----
\* C36: the confirmation counter of an escrow is the number of parties
\* with a Confirmed record for it, and the confirmation_count values in
\* those records are pairwise distinct and are exactly 1..counter.
C36_CounterCountsRecords ==
    \A id \in EscrowIds :
        /\ Counter(id) = Cardinality(ConfirmedParties(id))
        /\ \A p, q \in ConfirmedParties(id) :
              p # q => Records(id)[p].confirmation_count # Records(id)[q].confirmation_count
        /\ {Records(id)[p].confirmation_count : p \in ConfirmedParties(id)} = 1..Counter(id)

\* Two parties have confirmed and a third call, a repeat by one of them,
\* was refused: the counter is still 2 and the records carry 1 and 2.
C36_Witness ==
    /\ last.op = "confirm" /\ last.res = "DuplicateConfirmation"
    /\ Counter(last.id) = 2
    /\ Cardinality(ConfirmedParties(last.id)) = 2
    /\ Records(last.id)[last.party].confirmation_count \in {1, 2}

\* ---- C37 ----
DuplicateFree(parties) ==
    \A i, j \in 1..Len(parties) : i # j => parties[i] # parties[j]

\* A call with another duplicate-free list, by a listed party without a
\* record, at a moment when the counter already makes up for a listed
\* party that has not confirmed.
CountsOutsiders(id, caller, parties) ==
    /\ DuplicateFree(parties)
    /\ caller \in Members(parties) \ ConfirmedParties(id)
    /\ Overlay(id) = "Pending"
    /\ Counter(id) + 1 >= Len(parties)
    /\ Members(parties) \ (ConfirmedParties(id) \cup {caller}) # {}

CompletedAfterOneReleaseEach(id) ==
    /\ id \in Stored
    /\ escrows[id].status = "Completed"
    /\ Len(escrows[id].milestones) <= MAX_MILESTONES
    /\ \A i \in 1..Len(escrows[id].milestones) :
          /\ escrows[id].milestones[i].status = "Released"
          /\ paid[id][i - 1] = escrows[id].milestones[i].amount

\* C38: when transfers succeed, cancel is never invoked and the
\* depositor's release (of Pending milestones) and complete calls are
\* weakly fair, an Active escrow eventually becomes Completed, after
\* exactly one successful release per milestone (at most 20 of them).
C38_ProgressToCompletion ==
    \A id \in EscrowIds :
        (id \in Stored /\ escrows[id].status = "Active")
            ~> CompletedAfterOneReleaseEach(id)

\* An escrow of two milestones was funded, paid out twice and completed.
C38_Witness ==
    /\ last.op = "complete" /\ last.res = "Ok"
    /\ CompletedAfterOneReleaseEach(last.id)
    /\ Len(escrows[last.id].milestones) = 2
    /\ balance[Contract] = OtherCustody

====
